---- MODULE Spec2Model ----
(***************************************************************************)
(* Model of the two graph transformation scripts of snmi-network:          *)
(*   transform_to_hybrid_graph.py  (the hybrid builder, prefix H / h_)     *)
(*   transform_to_org_graph.py     (the org-aggregating builder, O / o_)   *)
(* Python str values that the code inspects (organization names, mentions) *)
(* are sequences of one-character strings, so that strip(), lower(), `in`, *)
(* int() and string comparison are computed and not assumed.  Opaque ids   *)
(* are TLA+ strings.  A Python dict is a function; a missing key is a key  *)
(* that is not in its DOMAIN.                                              *)
(***************************************************************************)
EXTENDS Integers, Sequences, FiniteSets, TLC

VARIABLES
  doc,                  \* original_data: [nodes |-> <<...>>, edges |-> <<...>>]
  h_pc, h_i,            \* hybrid script: statement being executed, loop position
  h_orgs, h_org_keys,   \* orgs (name -> people, category) and its insertion order
  h_person_to_org,      \* person_to_org
  h_org_id_map,         \* org_id_map
  h_new_ids,            \* person_id_to_new_id
  h_graph, h_edge_id,   \* new_graph, edge_id
  h_file, h_err,        \* sigma_graph_data_hybrid.json, uncaught exception
  o_pc, o_i, o_j,       \* org script: statement being executed, loop positions
  o_orgs, o_org_keys,   \* orgs and its insertion order
  o_person_to_org,      \* person_to_org
  o_conn,               \* org_connections, in insertion order
  o_org_id_map,         \* org_id_map
  o_graph, o_edge_id,   \* new_graph, edge_id
  o_file, o_err,        \* sigma_graph_data_orgs.json, uncaught exception
  c_name, c_pc, c_h, c_o \* classifier harness: input, position, both results

hvars == <<h_pc, h_i, h_orgs, h_org_keys, h_person_to_org, h_org_id_map,
           h_new_ids, h_graph, h_edge_id, h_file, h_err>>
ovars == <<o_pc, o_i, o_j, o_orgs, o_org_keys, o_person_to_org, o_conn,
           o_org_id_map, o_graph, o_edge_id, o_file, o_err>>
cvars == <<c_name, c_pc, c_h, c_o>>
vars == <<doc, hvars, ovars, cvars>>

\* ---------------------------------------------------------------- bounds
MaxNodes == 2
MaxEdges == 2
MaxSampleEdges == 11
MaxNameTokens == 2

\* ------------------------------------------------------- Python strings
UpperChars == <<"A", "B", "C", "D", "E", "F", "G", "H", "I", "J", "K", "L", "M", "N", "O", "P", "Q", "R", "S", "T", "U", "V", "W", "X", "Y", "Z">>
LowerChars == <<"a", "b", "c", "d", "e", "f", "g", "h", "i", "j", "k", "l", "m", "n", "o", "p", "q", "r", "s", "t", "u", "v", "w", "x", "y", "z">>
\* the characters of the model in code point order
AsciiChars == <<" ", "+", "-", "0", "1", "2", "3", "4", "5", "6", "7", "8", "9", "A", "B", "C", "D", "E", "F", "G", "H", "I", "J", "K", "L", "M", "N", "O", "P", "Q", "R", "S", "T", "U", "V", "W", "X", "Y", "Z", "_", "a", "b", "c", "d", "e", "f", "g", "h", "i", "j", "k", "l", "m", "n", "o", "p", "q", "r", "s", "t", "u", "v", "w", "x", "y", "z">>
DigitChars == <<"0", "1", "2", "3", "4", "5", "6", "7", "8", "9">>

IndexOf(seq, c) == CHOOSE i \in 1..Len(seq) : seq[i] = c
IsIn(seq, c) == \E i \in 1..Len(seq) : seq[i] = c
Min(a, b) == IF a < b THEN a ELSE b

\* ord(c), up to an order-preserving renumbering of the model's characters
Ord(c) == IndexOf(AsciiChars, c)

\* str.lower()
LowerChar(c) == IF IsIn(UpperChars, c) THEN LowerChars[IndexOf(UpperChars, c)] ELSE c
Lower(s) == [i \in 1..Len(s) |-> LowerChar(s[i])]

\* str.strip(): leading and trailing whitespace removed
IsSpace(c) == c = " "
Strip(s) ==
  LET keep == {i \in 1..Len(s) : ~IsSpace(s[i])}
  IN  IF keep = {} THEN <<>>
      ELSE LET lo == CHOOSE i \in keep : \A j \in keep : i <= j
               hi == CHOOSE i \in keep : \A j \in keep : j <= i
           IN  SubSeq(s, lo, hi)

\* `w in s` for two str values: w occurs in s as a contiguous substring
Contains(s, w) ==
  \E k \in 0..(Len(s) - Len(w)) : SubSeq(s, k + 1, k + Len(w)) = w

\* any(word in s for word in words)
AnyIn(s, words) == \E n \in 1..Len(words) : Contains(s, words[n])

\* s < t for two str values: lexicographic by code point
StrLess(s, t) ==
  \/ \E k \in 1..Min(Len(s), Len(t)) :
        /\ \A j \in 1..(k - 1) : s[j] = t[j]
        /\ Ord(s[k]) < Ord(t[k])
  \/ /\ Len(s) < Len(t)
     /\ \A j \in 1..Len(s) : s[j] = t[j]

\* dict.get(key, default)
Get(d, key, default) == IF key \in DOMAIN d THEN d[key] ELSE default
\* d[key] = value
Put(d, key, value) == [k \in DOMAIN d \cup {key} |-> IF k = key THEN value ELSE d[k]]

\* ---------------------------------------------------------- classifier
W_unaffiliated == <<"u", "n", "a", "f", "f", "i", "l", "i", "a", "t", "e", "d">>
W_hospital == <<"h", "o", "s", "p", "i", "t", "a", "l">>
W_health == <<"h", "e", "a", "l", "t", "h">>
W_medical == <<"m", "e", "d", "i", "c", "a", "l">>
W_medicine == <<"m", "e", "d", "i", "c", "i", "n", "e">>
W_clinic == <<"c", "l", "i", "n", "i", "c">>
W_care == <<"c", "a", "r", "e">>
W_state == <<"s", "t", "a", "t", "e">>
W_county == <<"c", "o", "u", "n", "t", "y">>
W_city == <<"c", "i", "t", "y">>
W_government == <<"g", "o", "v", "e", "r", "n", "m", "e", "n", "t">>
W_governor == <<"g", "o", "v", "e", "r", "n", "o", "r">>
W_department == <<"d", "e", "p", "a", "r", "t", "m", "e", "n", "t">>
W_hfs == <<"h", "f", "s">>
W_university == <<"u", "n", "i", "v", "e", "r", "s", "i", "t", "y">>
W_college == <<"c", "o", "l", "l", "e", "g", "e">>
W_uic == <<"u", "i", "c">>
W_foundation == <<"f", "o", "u", "n", "d", "a", "t", "i", "o", "n">>
W_trust == <<"t", "r", "u", "s", "t">>
W_committee == <<"c", "o", "m", "m", "i", "t", "t", "e", "e">>
W_association == <<"a", "s", "s", "o", "c", "i", "a", "t", "i", "o", "n">>
W_network == <<"n", "e", "t", "w", "o", "r", "k">>
W_coalition == <<"c", "o", "a", "l", "i", "t", "i", "o", "n">>
HealthcareWords == <<W_hospital, W_health, W_medical, W_medicine, W_clinic, W_care>>
GovernmentWords == <<W_state, W_county, W_city, W_government, W_governor,
                     W_department, W_hfs>>
EducationWords == <<W_university, W_college, W_uic>>
NonprofitWords == <<W_foundation, W_trust, W_committee, W_association, W_network,
                    W_coalition>>

\* the elif chain both copies of categorize_org share after their first test
KeywordCategory(name_lower) ==
  IF AnyIn(name_lower, HealthcareWords) THEN "Healthcare"
  ELSE IF AnyIn(name_lower, GovernmentWords) THEN "Government"
  ELSE IF AnyIn(name_lower, EducationWords) THEN "Education"
  ELSE IF AnyIn(name_lower, NonprofitWords) THEN "Nonprofit"
  ELSE "Private"

\* categorize_org(org_name) of transform_to_hybrid_graph.py
HCategorizeOrg(org_name) ==
  LET name_lower == Lower(org_name)
  IN  IF Contains(name_lower, W_unaffiliated) \/ Strip(org_name) = <<>>
      THEN "Unaffiliated"
      ELSE KeywordCategory(name_lower)

\* categorize_org of the org script without the .lower()
OCategorizeOrg_caseSensitive(org_name, people) ==
  IF Contains(org_name, W_unaffiliated)
  THEN "Unaffiliated"
  ELSE KeywordCategory(org_name)

\* categorize_org(org_name, people) of transform_to_org_graph.py
OCategorizeOrg(org_name, people) ==
  LET name_lower == Lower(org_name)
  IN  IF Contains(name_lower, W_unaffiliated)
      THEN "Unaffiliated"
      ELSE KeywordCategory(name_lower)

\* org_type_colors.get(category, '#999999')
OrgTypeColor(category) ==
  CASE category = "Healthcare" -> "#2196F3"
    [] category = "Government" -> "#9C27B0"
    [] category = "Nonprofit" -> "#FF9800"
    [] category = "Education" -> "#4CAF50"
    [] category = "Private" -> "#F44336"
    [] OTHER -> "#999999"

\* ------------------------------------------------------- input documents
S_Unaffiliated == <<"U", "n", "a", "f", "f", "i", "l", "i", "a", "t", "e", "d">>
S_Acme == <<"A", "c", "m", "e">>
S_Acme_padded == <<" ", "A", "c", "m", "e">>
S_UIC == <<"U", "I", "C">>
S_space == <<" ">>
S_empty == <<>>

\* None as returned by dict.get() where a person id (a str) is expected
NoneId == "<None>"
\* None where an organization name (a str) is expected
NoneName == <<"<None>">>
\* bool(x) of a str-or-None value
TruthyId(x) == x # NoneId /\ x # ""
TruthyName(x) == x # NoneName /\ x # <<>>

\* An optional attribute is <<>> (the key is absent) or <<value>>.
AttrsOf(org, mentions) ==
  [k \in {a \in {"organization"} : org # <<>>} \cup {a \in {"mentions"} : mentions # <<>>}
     |-> IF k = "organization" THEN org[1] ELSE mentions[1]]
PersonNode(id, org, mentions) ==
  [id |-> id, label |-> "L", attributes |-> AttrsOf(org, mentions)]
EdgeOf(source, target) == [source |-> source, target |-> target]

RECURSIVE SeqsUpTo(_, _)
\* all sequences over S of length at most n
SeqsUpTo(S, n) ==
  IF n = 0 THEN {<<>>}
  ELSE LET shorter == SeqsUpTo(S, n - 1)
       IN  shorter \cup {Append(q, x) : q \in shorter, x \in S}

\* organization attribute: absent, "", " ", "Unaffiliated", "unaffiliated",
\* " Acme", "UIC"
OrgChoices ==
  {<<>>, <<S_empty>>, <<S_space>>, <<S_Unaffiliated>>, <<W_unaffiliated>>,
   <<S_Acme_padded>>, <<S_UIC>>}
\* mentions attribute: absent, "2", " 12", "1_0", "x", ""
MentionsChoices ==
  {<<>>, <<(<<"2">>)>>, <<(<<" ", "1", "2">>)>>, <<(<<"1", "_", "0">>)>>, <<(<<"x">>)>>,
   <<S_empty>>}
\* the id of the node at a position of a list whose ids are distinct; the first
\* one, "", is a person id that is false as a condition
DistinctId(i) == IF i = 1 THEN "" ELSE "p" \o ToString(i - 1)

\* documents that vary the organization attribute; the ids of a list are all
\* distinct, or all the same
OrgLists == SeqsUpTo(OrgChoices, MaxNodes)
GroupingDocs ==
  {[nodes |-> [i \in 1..Len(orgs) |-> PersonNode(DistinctId(i), orgs[i], <<>>)],
    edges |-> <<>>] : orgs \in OrgLists}
  \cup
  {[nodes |-> [i \in 1..Len(orgs) |-> PersonNode("p1", orgs[i], <<>>)],
    edges |-> <<>>] : orgs \in OrgLists}
\* documents that vary the mentions attribute
MentionsDocs ==
  {[nodes |-> ns, edges |-> <<>>] :
     ns \in SeqsUpTo({PersonNode("p1", <<S_UIC>>, m) : m \in MentionsChoices}, MaxNodes)}
\* documents that vary the edges: between organizations, within one, in both
\* directions, and with an endpoint "px" that is no person id; the node lists
\* put two persons in two organizations, two persons in one, and one person id
\* on two records of different organizations
EdgeNodeLists ==
  {<<PersonNode("", <<S_Acme>>, <<>>), PersonNode("p1", <<>>, <<>>)>>,
   <<PersonNode("", <<S_Acme>>, <<>>), PersonNode("p1", <<S_Acme>>, <<>>)>>,
   <<PersonNode("p1", <<>>, <<>>), PersonNode("", <<S_UIC>>, <<>>),
     PersonNode("p1", <<S_Acme>>, <<>>)>>}
EdgeChoices ==
  {EdgeOf("p1", ""), EdgeOf("", "p1"), EdgeOf("p1", "p1"), EdgeOf("", ""),
   EdgeOf("p1", "px"), EdgeOf("px", "p1")}
EdgeDocs ==
  {[nodes |-> ns, edges |-> es] :
     ns \in EdgeNodeLists, es \in SeqsUpTo(EdgeChoices, MaxEdges)}
\* documents with a required key missing from a node or an edge
MalformedNodeChoices ==
  {PersonNode("p1", <<S_UIC>>, <<>>),
   [id |-> "p1", attributes |-> AttrsOf(<<S_UIC>>, <<>>)],
   [label |-> "L", attributes |-> AttrsOf(<<S_UIC>>, <<>>)],
   [id |-> "p1", label |-> "L"]}
MalformedEdgeLists ==
  {<<>>, <<EdgeOf("p1", "p1")>>, <<[source |-> "p1"]>>,
   <<EdgeOf("p1", "p1"), [target |-> "p1"]>>}
MalformedDocs ==
  {[nodes |-> ns, edges |-> es] :
     ns \in SeqsUpTo(MalformedNodeChoices, MaxNodes), es \in MalformedEdgeLists}
\* documents with many edges between the same two organizations
SampleNodes ==
  <<PersonNode("p1", <<S_Acme>>, <<>>), PersonNode("p2", <<S_Acme>>, <<>>),
    PersonNode("p3", <<S_UIC>>, <<>>)>>
\* MaxSampleEdges edges: the edge p1 -> p3 repeated, with at most two edges
\* replaced by an edge of another pair, of the opposite direction, or inside
\* one organization
SampleEdge == EdgeOf("p1", "p3")
SampleOtherEdges == {EdgeOf("p2", "p3"), EdgeOf("p3", "p1"), EdgeOf("p1", "p2")}
SampleEdgeLists ==
  LET base == [k \in 1..MaxSampleEdges |-> SampleEdge]
  IN  {base} \cup {[base EXCEPT ![i] = x, ![j] = y] :
                     i \in 1..MaxSampleEdges, j \in 1..MaxSampleEdges,
                     x \in SampleOtherEdges, y \in SampleOtherEdges \cup {SampleEdge}}
SampleDocs == {[nodes |-> SampleNodes, edges |-> es] : es \in SampleEdgeLists}

Documents ==
  GroupingDocs \cup MentionsDocs \cup EdgeDocs \cup MalformedDocs \cup SampleDocs

NoFile == [written |-> FALSE, content |-> [nodes |-> <<>>, edges |-> <<>>]]
EmptyGraph == [nodes |-> <<>>, edges |-> <<>>]

\* the grouping key without the 'Unaffiliated' substitution
HOrgName_noDefault(node) == Strip(Get(node.attributes, "organization", <<>>))

\* ------------------------------------------------------------ shared code
\* .get('organization', '').strip(), 'Unaffiliated' when that is empty
\* (transform_to_hybrid_graph.py)
HOrgName(node) ==
  LET org_name == Strip(Get(node.attributes, "organization", <<>>))
  IN  IF org_name = <<>> THEN S_Unaffiliated ELSE org_name

\* the same statements of transform_to_org_graph.py
OOrgName(node) ==
  LET org_name == Strip(Get(node.attributes, "organization", <<>>))
  IN  IF org_name = <<>> THEN S_Unaffiliated ELSE org_name

RECURSIVE InsertSorted(_, _)
InsertSorted(x, s) ==
  IF s = <<>> THEN <<x>>
  ELSE IF StrLess(x, Head(s)) THEN <<x>> \o s
  ELSE <<Head(s)>> \o InsertSorted(x, Tail(s))
RECURSIVE SortedSeq(_)
\* sorted() of a list of distinct str values
SortedSeq(s) == IF s = <<>> THEN <<>> ELSE InsertSorted(Head(s), SortedSeq(Tail(s)))

\* f'org_{idx}', f'e_{edge_id}'
OrgId(idx) == "org_" \o ToString(idx)
EdgeId(n) == "e_" \o ToString(n)

RECURSIVE DigitsValue(_)
DigitsValue(s) ==
  IF s = <<>> THEN 0
  ELSE 10 * DigitsValue(SubSeq(s, 1, Len(s) - 1)) + (IndexOf(DigitChars, s[Len(s)]) - 1)
\* int(s) of a str: surrounding whitespace, an optional sign, then decimal
\* digits that single underscores may separate ("1_0" is 10; "_1", "1_" and
\* "1__0" are not integers); anything else raises ValueError
RECURSIVE DropUnderscores(_)
DropUnderscores(s) ==
  IF s = <<>> THEN <<>>
  ELSE IF Head(s) = "_" THEN DropUnderscores(Tail(s))
  ELSE <<Head(s)>> \o DropUnderscores(Tail(s))
IsIntBody(s) ==
  /\ s # <<>>
  /\ IsIn(DigitChars, s[1])
  /\ IsIn(DigitChars, s[Len(s)])
  /\ \A k \in 1..Len(s) : IsIn(DigitChars, s[k]) \/ s[k] = "_"
  /\ \A k \in 1..(Len(s) - 1) : ~(s[k] = "_" /\ s[k + 1] = "_")
ParseInt(s) ==
  LET t == Strip(s)
      signed == t # <<>> /\ t[1] \in {"+", "-"}
      body == IF signed THEN Tail(t) ELSE t
  IN  IF IsIntBody(body)
      THEN [ok |-> TRUE,
            value |-> IF signed /\ t[1] = "-" THEN 0 - DigitsValue(DropUnderscores(body))
                      ELSE DigitsValue(DropUnderscores(body))]
      ELSE [ok |-> FALSE, value |-> 0]
\* int(node['attributes'].get('mentions', 0))
MentionsInt(attributes) ==
  IF "mentions" \in DOMAIN attributes THEN ParseInt(attributes["mentions"])
  ELSE [ok |-> TRUE, value |-> 0]
\* ------------------------------------- transform_to_hybrid_graph.py
HNodes == doc.nodes
HEdges == doc.edges

\* orgs[org_name]['people'].append(node); orgs[org_name]['category'] = ...
HOrgsAdd(orgs, org_name, node) ==
  Put(orgs, org_name,
      [people |-> Append(Get(orgs, org_name, [people |-> <<>>]).people, node),
       category |-> HCategorizeOrg(org_name)])

\* insertion order of a dict's keys after d[key] is assigned
KeysAdd(keys, key) == IF IsIn(keys, key) THEN keys ELSE Append(keys, key)

\* orgs.items() without sorted(): discovery order
HSortedItems_unsorted(keys) == keys

\* sorted(orgs.items()): the names in sorted order (the names are distinct, so
\* the tuples are ordered by name alone)
HSortedItems(keys) == SortedSeq(keys)

\* statement reached when the loop over the nodes / the edges is exhausted
HAfterMembership == IF Len(HEdges) > 0 THEN "edges" ELSE "save"
HStart == IF Len(HNodes) > 0 THEN "group" ELSE HAfterMembership

\* the dump placed before the person-to-person edge loop has finished
HSaveReady_early == h_pc \in {"edges", "save"}

\* the output document is written only by the last statement
HSaveReady == h_pc = "save"

HRaise(exception) ==
  /\ h_pc' = "aborted"
  /\ h_err' = exception

\* lines 50-57: one iteration of the grouping loop
HGroup ==
  /\ UNCHANGED <<doc, ovars, cvars>>
  /\ h_pc = "group"
  /\ LET node == HNodes[h_i]
     IN  IF "attributes" \notin DOMAIN node \/ "id" \notin DOMAIN node
         THEN /\ HRaise("KeyError")
              /\ UNCHANGED <<h_i, h_orgs, h_org_keys, h_person_to_org>>
         ELSE LET org_name == HOrgName(node)
              IN  /\ h_person_to_org' = Put(h_person_to_org, node.id, org_name)
                  /\ h_orgs' = HOrgsAdd(h_orgs, org_name, node)
                  /\ h_org_keys' = KeysAdd(h_org_keys, org_name)
                  /\ IF h_i < Len(HNodes)
                     THEN h_i' = h_i + 1 /\ h_pc' = "group"
                     ELSE h_i' = 1 /\ h_pc' = "orgnodes"
                  /\ h_err' = h_err
  /\ UNCHANGED <<h_org_id_map, h_new_ids, h_graph, h_edge_id, h_file>>

\* lines 66-88: one iteration of the organization node loop
HOrgNodes ==
  /\ UNCHANGED <<doc, ovars, cvars>>
  /\ h_pc = "orgnodes"
  /\ LET items == HSortedItems(h_org_keys)
         idx == h_i - 1
         org_name == items[h_i]
         org_data == h_orgs[org_name]
         org_id == OrgId(idx)
     IN  /\ h_org_id_map' = Put(h_org_id_map, org_name, org_id)
         /\ h_graph' =
              [h_graph EXCEPT !.nodes = Append(@,
                 [id |-> org_id, label |-> org_name, type |-> "Organization",
                  size |-> 15 + Len(org_data.people) * 3,
                  color |-> OrgTypeColor(org_data.category),
                  attributes |->
                    [nodeType |-> "Organization", category |-> org_data.category,
                     people_count |-> Len(org_data.people), isOrganization |-> TRUE]])]
         /\ IF h_i < Len(items)
            THEN h_i' = h_i + 1 /\ h_pc' = "orgnodes"
            ELSE h_i' = 1 /\ h_pc' = "personnodes"
  /\ UNCHANGED <<h_orgs, h_org_keys, h_person_to_org, h_new_ids, h_edge_id, h_file, h_err>>

\* lines 92-125: one iteration of the person node loop; sizes are in tenths
\* (size_tenths = 10 * person_size).  The attributes that are only copied
\* through (title, status, priority, ...), the colour and the constant x, y
\* are left out of the node: no later statement reads them.
HPersonNodes ==
  /\ UNCHANGED <<doc, ovars, cvars>>
  /\ h_pc = "personnodes"
  /\ LET node == HNodes[h_i]
         person_id == node.id
         mentions == MentionsInt(node.attributes)
     IN  /\ h_new_ids' = Put(h_new_ids, person_id, person_id)
         /\ IF ~mentions.ok
            THEN HRaise("ValueError") /\ UNCHANGED <<h_i, h_graph>>
            ELSE IF "label" \notin DOMAIN node
            THEN HRaise("KeyError") /\ UNCHANGED <<h_i, h_graph>>
            ELSE /\ h_graph' =
                      [h_graph EXCEPT !.nodes = Append(@,
                         [id |-> person_id, label |-> node.label, type |-> "Person",
                          size_tenths |-> 30 + mentions.value * 3,
                          attributes |->
                            [nodeType |-> "Person",
                             organization |-> Get(node.attributes, "organization", <<>>),
                             mentions |-> Get(node.attributes, "mentions", <<"0">>),
                             isPerson |-> TRUE]])]
                 /\ IF h_i < Len(HNodes)
                    THEN h_i' = h_i + 1 /\ h_pc' = "personnodes"
                    ELSE h_i' = 1 /\ h_pc' = "membership"
                 /\ h_err' = h_err
  /\ UNCHANGED <<h_orgs, h_org_keys, h_person_to_org, h_org_id_map, h_edge_id, h_file>>

\* lines 129-146: one iteration of the membership edge loop
HMembership ==
  /\ UNCHANGED <<doc, ovars, cvars>>
  /\ h_pc = "membership"
  /\ LET node == HNodes[h_i]
         person_id == node.id
         org_name == Get(h_person_to_org, person_id, NoneName)
         org_id == Get(h_org_id_map, org_name, NoneId)
     IN  IF TruthyId(org_id)
         THEN /\ h_graph' =
                   [h_graph EXCEPT !.edges = Append(@,
                      [id |-> EdgeId(h_edge_id), source |-> person_id, target |-> org_id,
                       size |-> 1, label |-> "member of",
                       attributes |-> [edgeType |-> "membership"]])]
              /\ h_edge_id' = h_edge_id + 1
         ELSE UNCHANGED <<h_graph, h_edge_id>>
  /\ IF h_i < Len(HNodes)
     THEN h_i' = h_i + 1 /\ h_pc' = "membership"
     ELSE h_i' = 1 /\ h_pc' = HAfterMembership
  /\ UNCHANGED <<h_orgs, h_org_keys, h_person_to_org, h_org_id_map, h_new_ids, h_file, h_err>>

\* lines 149-166: one iteration of the person-to-person edge loop
HRelationship ==
  /\ UNCHANGED <<doc, ovars, cvars>>
  /\ h_pc = "edges"
  /\ LET edge == HEdges[h_i]
     IN  IF "source" \notin DOMAIN edge \/ "target" \notin DOMAIN edge
         THEN HRaise("KeyError") /\ UNCHANGED <<h_i, h_graph, h_edge_id>>
         ELSE LET source_id == Get(h_new_ids, edge.source, NoneId)
                  target_id == Get(h_new_ids, edge.target, NoneId)
              IN  /\ IF TruthyId(source_id) /\ TruthyId(target_id)
                     THEN /\ h_graph' =
                               [h_graph EXCEPT !.edges = Append(@,
                                  [id |-> EdgeId(h_edge_id), source |-> source_id,
                                   target |-> target_id, size |-> 2,
                                   label |-> Get(edge, "label", ""),
                                   attributes |->
                                     [edgeType |-> "relationship",
                                      original_type |-> Get(edge, "type", "")]])]
                          /\ h_edge_id' = h_edge_id + 1
                     ELSE UNCHANGED <<h_graph, h_edge_id>>
                  /\ IF h_i < Len(HEdges)
                     THEN h_i' = h_i + 1 /\ h_pc' = "edges"
                     ELSE h_i' = h_i + 1 /\ h_pc' = "save"
                  /\ h_err' = h_err
  /\ UNCHANGED <<h_orgs, h_org_keys, h_person_to_org, h_org_id_map, h_new_ids, h_file>>

\* lines 169-170: json.dump(new_graph, f)
HSave ==
  /\ UNCHANGED <<doc, ovars, cvars>>
  /\ HSaveReady
  /\ h_file' = [written |-> TRUE, content |-> h_graph]
  /\ h_pc' = "done"
  /\ UNCHANGED <<h_i, h_orgs, h_org_keys, h_person_to_org, h_org_id_map, h_new_ids,
                 h_graph, h_edge_id, h_err>>

HFinished == h_pc \in {"done", "aborted"}

\* ---------------------------------------- transform_to_org_graph.py
ONodes == doc.nodes
OEdges == doc.edges

\* 'people_pairs': connection_data['people_pairs'][:10]
SampleCap == 10

\* the slice taken from the wrong end: people_pairs[-10:]
OSamplePairs_last(people_pairs) ==
  SubSeq(people_pairs, Len(people_pairs) - Min(Len(people_pairs), 10) + 1,
         Len(people_pairs))

OSamplePairs(people_pairs) == SubSeq(people_pairs, 1, Min(Len(people_pairs), SampleCap))

\* lines 29-41: person_info
OPersonInfo(node) ==
  [id |-> node.id, name |-> node.label,
   title |-> Get(node.attributes, "title", ""),
   status |-> Get(node.attributes, "status", ""),
   priority |-> Get(node.attributes, "priority", ""),
   mentions |-> Get(node.attributes, "mentions", <<"0">>),
   nodeType |-> Get(node, "type", "Person")]

\* a fresh value of the orgs defaultdict
ONewOrg == [people |-> <<>>, statuses |-> {}, priorities |-> {}, types |-> {}]

\* lines 43-49: the person is added to its organization's accumulators
OOrgsAdd(orgs, org_name, node) ==
  LET old == Get(orgs, org_name, ONewOrg)
      status == Get(node.attributes, "status", "")
      priority == Get(node.attributes, "priority", "")
  IN  Put(orgs, org_name,
          [people |-> Append(old.people, OPersonInfo(node)),
           statuses |-> IF status # "" THEN old.statuses \cup {status} ELSE old.statuses,
           priorities |-> IF priority # "" THEN old.priorities \cup {priority}
                          ELSE old.priorities,
           types |-> old.types \cup {Get(node, "type", "Person")}])

\* line 61 without the source_org != target_org test
OCrossesOrgs_sameOrg(source_org, target_org) ==
  TruthyName(source_org) /\ TruthyName(target_org)

\* line 61: if source_org and target_org and source_org != target_org
OCrossesOrgs(source_org, target_org) ==
  TruthyName(source_org) /\ TruthyName(target_org) /\ source_org # target_org

\* lines 62-66 on org_connections, a dict of dicts kept in insertion order:
\* <<[source, targets |-> <<[target, count, people_pairs], ...>>], ...>>
OTargetsAdd(targets, target_org, pair) ==
  IF \E j \in 1..Len(targets) : targets[j].target = target_org
  THEN [j \in 1..Len(targets) |->
          IF targets[j].target = target_org
          THEN [targets[j] EXCEPT !.count = @ + 1, !.people_pairs = Append(@, pair)]
          ELSE targets[j]]
  ELSE Append(targets, [target |-> target_org, count |-> 1, people_pairs |-> <<pair>>])
OConnAdd(conn, source_org, target_org, pair) ==
  IF \E i \in 1..Len(conn) : conn[i].source = source_org
  THEN [i \in 1..Len(conn) |->
          IF conn[i].source = source_org
          THEN [conn[i] EXCEPT !.targets = OTargetsAdd(@, target_org, pair)]
          ELSE conn[i]]
  ELSE Append(conn, [source |-> source_org,
                     targets |-> OTargetsAdd(<<>>, target_org, pair)])

\* sorted(orgs.items())
OSortedItems(keys) == SortedSeq(keys)

\* statement reached when a loop is exhausted (a loop over nothing is skipped)
OAfterOrgNodes(conn) == IF Len(conn) > 0 THEN "emit" ELSE "save"
OAfterConnect(keys, conn) == IF Len(keys) > 0 THEN "orgnodes" ELSE OAfterOrgNodes(conn)
OAfterGroup(keys) == IF Len(OEdges) > 0 THEN "connect" ELSE OAfterConnect(keys, <<>>)
OStart == IF Len(ONodes) > 0 THEN "group" ELSE OAfterGroup(<<>>)

\* the output document is written only by the last statement
OSaveReady == o_pc = "save"

ORaise(exception) ==
  /\ o_pc' = "aborted"
  /\ o_err' = exception

\* lines 22-49: one iteration of the grouping loop
OGroup ==
  /\ UNCHANGED <<doc, hvars, cvars>>
  /\ o_pc = "group"
  /\ LET node == ONodes[o_i]
     IN  IF "attributes" \notin DOMAIN node \/ "id" \notin DOMAIN node
         THEN /\ ORaise("KeyError")
              /\ UNCHANGED <<o_i, o_orgs, o_org_keys, o_person_to_org>>
         ELSE LET org_name == OOrgName(node)
              IN  /\ o_person_to_org' = Put(o_person_to_org, node.id, org_name)
                  /\ IF "label" \notin DOMAIN node
                     THEN /\ ORaise("KeyError")
                          /\ UNCHANGED <<o_i, o_orgs, o_org_keys>>
                     ELSE /\ o_orgs' = OOrgsAdd(o_orgs, org_name, node)
                          /\ o_org_keys' = KeysAdd(o_org_keys, org_name)
                          /\ IF o_i < Len(ONodes)
                             THEN o_i' = o_i + 1 /\ o_pc' = "group"
                             ELSE o_i' = 1 /\ o_pc' = OAfterGroup(o_org_keys')
                          /\ o_err' = o_err
  /\ UNCHANGED <<o_j, o_conn, o_org_id_map, o_graph, o_edge_id, o_file>>

\* lines 57-66: one iteration of the connection loop
OConnect ==
  /\ UNCHANGED <<doc, hvars, cvars>>
  /\ o_pc = "connect"
  /\ LET edge == OEdges[o_i]
     IN  IF "source" \notin DOMAIN edge \/ "target" \notin DOMAIN edge
         THEN ORaise("KeyError") /\ UNCHANGED <<o_i, o_conn>>
         ELSE LET source_org == Get(o_person_to_org, edge.source, NoneName)
                  target_org == Get(o_person_to_org, edge.target, NoneName)
              IN  /\ o_conn' =
                       IF OCrossesOrgs(source_org, target_org)
                       THEN OConnAdd(o_conn, source_org, target_org,
                                     [source |-> edge.source, target |-> edge.target])
                       ELSE o_conn
                  /\ IF o_i < Len(OEdges)
                     THEN o_i' = o_i + 1 /\ o_pc' = "connect"
                     ELSE o_i' = 1 /\ o_pc' = OAfterConnect(o_org_keys, o_conn')
                  /\ o_err' = o_err
  /\ UNCHANGED <<o_j, o_orgs, o_org_keys, o_person_to_org, o_org_id_map, o_graph,
                 o_edge_id, o_file>>

\* lines 103-129: one iteration of the organization node loop
OOrgNodes ==
  /\ UNCHANGED <<doc, hvars, cvars>>
  /\ o_pc = "orgnodes"
  /\ LET items == OSortedItems(o_org_keys)
         idx == o_i - 1
         org_name == items[o_i]
         org_data == o_orgs[org_name]
         org_id == OrgId(idx)
         org_category == OCategorizeOrg(org_name, org_data.people)
     IN  /\ o_org_id_map' = Put(o_org_id_map, org_name, org_id)
         /\ o_graph' =
              [o_graph EXCEPT !.nodes = Append(@,
                 [id |-> org_id, label |-> org_name, type |-> "Organization",
                  size |-> 5 + Len(org_data.people) * 2,
                  color |-> OrgTypeColor(org_category),
                  attributes |->
                    [category |-> org_category, people_count |-> Len(org_data.people),
                     people |-> org_data.people, statuses |-> org_data.statuses,
                     priorities |-> org_data.priorities,
                     person_types |-> org_data.types]])]
         /\ IF o_i < Len(items)
            THEN o_i' = o_i + 1 /\ o_pc' = "orgnodes"
            ELSE o_i' = 1 /\ o_pc' = OAfterOrgNodes(o_conn)
  /\ UNCHANGED <<o_j, o_orgs, o_org_keys, o_person_to_org, o_conn, o_edge_id, o_file, o_err>>

\* lines 133-158: one pass of the inner loop body (or one `continue` of the
\* outer loop); sizes are in halves (size_halves = 2 * edge_size)
OEmit ==
  /\ UNCHANGED <<doc, hvars, cvars>>
  /\ o_pc = "emit"
  /\ LET entry == o_conn[o_i]
         source_id == Get(o_org_id_map, entry.source, NoneId)
         connection_data == entry.targets[o_j]
         target_id == Get(o_org_id_map, connection_data.target, NoneId)
         emits == TruthyId(source_id) /\ TruthyId(target_id)
         inner_more == TruthyId(source_id) /\ o_j < Len(entry.targets)
     IN  /\ IF emits
            THEN /\ o_graph' =
                      [o_graph EXCEPT !.edges = Append(@,
                         [id |-> EdgeId(o_edge_id), source |-> source_id,
                          target |-> target_id,
                          size_halves |-> Min(2 + connection_data.count, 20),
                          label |-> ToString(connection_data.count) \o " connection(s)",
                          attributes |->
                            [connection_count |-> connection_data.count,
                             people_pairs |-> OSamplePairs(connection_data.people_pairs)]])]
                 /\ o_edge_id' = o_edge_id + 1
            ELSE UNCHANGED <<o_graph, o_edge_id>>
         /\ IF inner_more
            THEN o_j' = o_j + 1 /\ o_i' = o_i /\ o_pc' = "emit"
            ELSE IF o_i < Len(o_conn)
            THEN o_j' = 1 /\ o_i' = o_i + 1 /\ o_pc' = "emit"
            ELSE o_j' = o_j /\ o_i' = o_i /\ o_pc' = "save"
  /\ UNCHANGED <<o_orgs, o_org_keys, o_person_to_org, o_conn, o_org_id_map, o_file, o_err>>

\* lines 161-162: json.dump(new_graph, f)
OSave ==
  /\ UNCHANGED <<doc, hvars, cvars>>
  /\ OSaveReady
  /\ o_file' = [written |-> TRUE, content |-> o_graph]
  /\ o_pc' = "done"
  /\ UNCHANGED <<o_i, o_j, o_orgs, o_org_keys, o_person_to_org, o_conn, o_org_id_map,
                 o_graph, o_edge_id, o_err>>

OFinished == o_pc \in {"done", "aborted"}


\* ------------------------------------------------------- classifier harness
\* names fed to the two classifiers: up to MaxNameTokens of these, concatenated
T_Un == <<"U", "n">>
T_affiliated == <<"a", "f", "f", "i", "l", "i", "a", "t", "e", "d">>
T_Health == <<"H", "e", "a", "l", "t", "h">>
T_State == <<"S", "t", "a", "t", "e">>
T_Trust == <<"T", "r", "u", "s", "t">>
NameTokens == {S_space, T_Un, T_affiliated, T_Health, T_State, S_UIC, T_Trust, S_Acme}
RECURSIVE NamesUpTo(_)
NamesUpTo(n) ==
  IF n = 0 THEN {<<>>}
  ELSE LET shorter == NamesUpTo(n - 1)
       IN  shorter \cup {q \o t : q \in shorter, t \in NameTokens}
ClassifierInputs == NamesUpTo(MaxNameTokens)

ClassifyHybrid ==
  /\ c_pc = "input"
  /\ c_h' = HCategorizeOrg(c_name)
  /\ c_pc' = "hybrid"
  /\ UNCHANGED <<c_name, c_o, doc, hvars, ovars>>
ClassifyOrg ==
  /\ c_pc = "hybrid"
  /\ c_o' = OCategorizeOrg(c_name, <<>>)
  /\ c_pc' = "done"
  /\ UNCHANGED <<c_name, c_h, doc, hvars, ovars>>

\* ---------------------------------------------------------- specifications
InitScripts ==
  /\ h_pc = HStart /\ h_i = 1
  /\ h_orgs = <<>> /\ h_org_keys = <<>> /\ h_person_to_org = <<>>
  /\ h_org_id_map = <<>> /\ h_new_ids = <<>>
  /\ h_graph = EmptyGraph /\ h_edge_id = 0
  /\ h_file = NoFile /\ h_err = ""
  /\ o_pc = OStart /\ o_i = 1 /\ o_j = 1
  /\ o_orgs = <<>> /\ o_org_keys = <<>> /\ o_person_to_org = <<>>
  /\ o_conn = <<>> /\ o_org_id_map = <<>>
  /\ o_graph = EmptyGraph /\ o_edge_id = 0
  /\ o_file = NoFile /\ o_err = ""
InitClassifierIdle == c_name = <<>> /\ c_pc = "idle" /\ c_h = "" /\ c_o = ""

\* Both scripts are run on the same document, one after the other (they share
\* nothing but the input file, so the order does not matter): the hybrid
\* script first, then the org script.
Init ==
  /\ doc \in Documents
  /\ InitScripts
  /\ InitClassifierIdle
Next ==
  \/ HGroup
  \/ HOrgNodes
  \/ HPersonNodes
  \/ HMembership
  \/ HRelationship
  \/ HSave
  \/ HFinished /\ OGroup
  \/ HFinished /\ OConnect
  \/ HFinished /\ OOrgNodes
  \/ HFinished /\ OEmit
  \/ HFinished /\ OSave
Spec == Init /\ [][Next]_vars

\* the two classifiers as pure functions of a name
InitClassify ==
  /\ doc = [nodes |-> <<>>, edges |-> <<>>]
  /\ InitScripts
  /\ c_name \in ClassifierInputs /\ c_pc = "input" /\ c_h = "" /\ c_o = ""
NextClassify == ClassifyHybrid \/ ClassifyOrg
SpecClassify == InitClassify /\ [][NextClassify]_vars

\* ------------------------------------------------- vocabulary of the claims
\* the organization attribute of a node record as the input gives it
ClaimRawOrg(node) == IF "organization" \in DOMAIN node.attributes
                     THEN node.attributes["organization"] ELSE <<>>
\* empty, whitespace-only or missing
ClaimBlankOrg(node) == \A k \in 1..Len(ClaimRawOrg(node)) : ClaimRawOrg(node)[k] = " "
\* contains the token 'unaffiliated'
ClaimMentionsUnaffiliated(node) == Contains(Lower(ClaimRawOrg(node)), W_unaffiliated)
\* the normalized organization name of a node record (spec 4.2)
ClaimOrgName(node) ==
  IF ClaimBlankOrg(node) THEN S_Unaffiliated ELSE Strip(ClaimRawOrg(node))
ClaimOrgNames == {ClaimOrgName(doc.nodes[i]) : i \in 1..Len(doc.nodes)}
\* rank of a name among the distinct names, in lexicographic order
ClaimRank(name, names) == Cardinality({m \in names : StrLess(m, name)})
\* the organization a person id is grouped in: that of the last node record
\* carrying the id (person_to_org keeps one entry per id); NoneName if there is none
ClaimOrgOfPerson(id) ==
  LET at == {i \in 1..Len(doc.nodes) : doc.nodes[i].id = id}
  IN  IF at = {} THEN NoneName
      ELSE ClaimOrgName(doc.nodes[CHOOSE i \in at : \A j \in at : j <= i])
ClaimPersonIds == {doc.nodes[i].id : i \in 1..Len(doc.nodes)}
\* ids of the organization nodes of an output document that carry a label
ClaimOrgNodeIds(out, name) ==
  {out.nodes[n].id : n \in {m \in 1..Len(out.nodes) :
      out.nodes[m].type = "Organization" /\ out.nodes[m].label = name}}
\* the input edges, by position, that run from a person of A to a person of B
ClaimContributing(A, B) ==
  {k \in 1..Len(doc.edges) :
     /\ ClaimOrgOfPerson(doc.edges[k].source) = A
     /\ ClaimOrgOfPerson(doc.edges[k].target) = B}
\* the aggregate edges of an output document, by position, from A's node to B's
ClaimAggregate(out, A, B) ==
  {e \in 1..Len(out.edges) :
     /\ out.edges[e].source \in ClaimOrgNodeIds(out, A)
     /\ out.edges[e].target \in ClaimOrgNodeIds(out, B)}

\* the organization nodes of the two scripts are complete
HOrgNodesBuilt ==
  \/ h_pc \in {"personnodes", "membership", "edges", "save", "done"}
  \/ h_pc = "aborted" /\ DOMAIN h_new_ids # {}
OOrgNodesBuilt == o_pc \in {"emit", "save", "done"}
\* what the claims compare of an organization node
ClaimOrgView(node) ==
  [label |-> node.label, id |-> node.id, category |-> node.attributes.category,
   people_count |-> node.attributes.people_count]
HOrgViews ==
  {ClaimOrgView(h_graph.nodes[n]) :
     n \in {m \in 1..Len(h_graph.nodes) : h_graph.nodes[m].type = "Organization"}}
OOrgViews ==
  {ClaimOrgView(o_graph.nodes[n]) :
     n \in {m \in 1..Len(o_graph.nodes) : o_graph.nodes[m].type = "Organization"}}

\* ------------------------------------------------------------------ claims

\* C1: when the org script has finished, for every ordered pair (A, B) of
\* organization names the output holds an aggregate edge from A's node to B's
\* node iff A # B and some input edge runs from a person grouped in A to a
\* person grouped in B; there is at most one such edge, its connection_count is
\* the number of those input edges, and every output edge is such an edge (so
\* edges inside one organization, edges with an unknown endpoint and edges of
\* the opposite direction contribute nothing to it).
C1_AggregateEdges ==
  o_pc = "done" =>
    LET out == o_file.content
    IN  /\ \A A \in ClaimOrgNames, B \in ClaimOrgNames :
             LET agg == ClaimAggregate(out, A, B)
                 contributing == ClaimContributing(A, B)
             IN  /\ (agg # {}) <=> (A # B /\ contributing # {})
                 /\ Cardinality(agg) <= 1
                 /\ \A e \in agg :
                      out.edges[e].attributes.connection_count = Cardinality(contributing)
        /\ \A e \in 1..Len(out.edges) :
             \E A \in ClaimOrgNames, B \in ClaimOrgNames : e \in ClaimAggregate(out, A, B)
\* a finished run with aggregate edges in both directions between two
\* organizations, one of them counting two input edges, and with an input edge
\* inside one organization
C1_Witness ==
  /\ o_pc = "done"
  /\ \E a \in 1..Len(o_file.content.edges), b \in 1..Len(o_file.content.edges) :
       /\ o_file.content.edges[a].source = o_file.content.edges[b].target
       /\ o_file.content.edges[a].target = o_file.content.edges[b].source
       /\ o_file.content.edges[a].attributes.connection_count >= 2
  /\ \E k \in 1..Len(doc.edges) :
       ClaimOrgOfPerson(doc.edges[k].source) = ClaimOrgOfPerson(doc.edges[k].target)

ClaimFirstMatchingRule(name) ==
  IF Strip(name) = <<>> \/ Contains(Lower(name), W_unaffiliated) THEN "Unaffiliated"
  ELSE IF AnyIn(Lower(name), HealthcareWords) THEN "Healthcare"
  ELSE IF AnyIn(Lower(name), GovernmentWords) THEN "Government"
  ELSE IF AnyIn(Lower(name), EducationWords) THEN "Education"
  ELSE IF AnyIn(Lower(name), NonprofitWords) THEN "Nonprofit"
  ELSE "Private"
\* C2 (as claimed): both copies of categorize_org return, for every string, the
\* category of the first matching rule, where rule 1 is "the trimmed name is
\* empty or the lower-cased name contains 'unaffiliated'".
C2_BothClassifiersFollowRules ==
  c_pc = "done" =>
    /\ c_h = ClaimFirstMatchingRule(c_name)
    /\ c_o = ClaimFirstMatchingRule(c_name)

ClaimKeptEdges ==
  {k \in 1..Len(doc.edges) :
     doc.edges[k].source \in ClaimPersonIds /\ doc.edges[k].target \in ClaimPersonIds}
\* C3 (as claimed): when the hybrid script has finished, the number of output
\* edges is the number of input nodes plus the number of input edges whose
\* source and target are both ids of input nodes.
C3_EdgeCountLaw ==
  h_pc = "done" =>
    Len(h_file.content.edges) = Len(doc.nodes) + Cardinality(ClaimKeptEdges)

ClaimRankMap == [name \in ClaimOrgNames |-> OrgId(ClaimRank(name, ClaimOrgNames))]
\* C4: once a script has built its organization nodes, org_id_map maps every
\* distinct normalized organization name to org_<k>, k the rank of the name in
\* lexicographic order among the distinct names, and maps nothing else.  The
\* right-hand side depends on the set of names only, so any reordering of the
\* node list yields the same map; the ids are org_0 .. org_{n-1}, all distinct.
C4_IdsByRank ==
  /\ HOrgNodesBuilt => h_org_id_map = ClaimRankMap
  /\ OOrgNodesBuilt => o_org_id_map = ClaimRankMap
  /\ (HOrgNodesBuilt \/ OOrgNodesBuilt) =>
       {ClaimRankMap[name] : name \in ClaimOrgNames}
         = {OrgId(k) : k \in 0..(Cardinality(ClaimOrgNames) - 1)}
\* both scripts have built their nodes from a list whose organizations were
\* discovered in an order that is not the sorted one
C4_Witness ==
  /\ HOrgNodesBuilt /\ OOrgNodesBuilt
  /\ Len(h_org_keys) >= 2
  /\ StrLess(h_org_keys[2], h_org_keys[1])
  /\ o_org_keys = h_org_keys

ClaimPairsInOrder(A, B) ==
  LET Runs(edge) == /\ ClaimOrgOfPerson(edge.source) = A
                    /\ ClaimOrgOfPerson(edge.target) = B
      chosen == SelectSeq(doc.edges, Runs)
  IN  [k \in 1..Len(chosen) |-> [source |-> chosen[k].source, target |-> chosen[k].target]]
\* C5: when the org script has finished, the people_pairs of every aggregate
\* edge from A's node to B's node is the first min(connection_count, 10) of the
\* (source, target) pairs of the input edges from A to B, in input order; its
\* length is min(connection_count, 10), and 10 when the count exceeds 10.
C5_SampleIsFirstTen ==
  o_pc = "done" =>
    LET out == o_file.content
    IN  \A A \in ClaimOrgNames, B \in ClaimOrgNames :
          \A e \in ClaimAggregate(out, A, B) :
            LET sample == out.edges[e].attributes.people_pairs
                count == out.edges[e].attributes.connection_count
            IN  /\ Len(sample) = Min(count, 10)
                /\ count > 10 => Len(sample) = 10
                /\ sample = SubSeq(ClaimPairsInOrder(A, B), 1, Min(count, 10))
\* a finished run with an aggregate edge of more than 10 input edges whose
\* eleventh pair differs from its first
C5_Witness ==
  /\ o_pc = "done"
  /\ \E A \in ClaimOrgNames, B \in ClaimOrgNames :
       /\ ClaimAggregate(o_file.content, A, B) # {}
       /\ Len(ClaimPairsInOrder(A, B)) > 10
       /\ ClaimPairsInOrder(A, B)[11] # ClaimPairsInOrder(A, B)[1]

\* the grouping loop of a script has finished
HGrouped == h_pc = "orgnodes" \/ HOrgNodesBuilt
OGrouped == o_pc \in {"connect", "orgnodes", "emit", "save", "done"}
\* the node records of an organization, in input order
ClaimMembers(name) ==
  LET Belongs(node) == ClaimOrgName(node) = name
  IN  SelectSeq(doc.nodes, Belongs)
ClaimIds(records) == [k \in 1..Len(records) |-> records[k].id]

\* C6 (as claimed): after grouping, every node record whose organization is
\* empty, whitespace-only, missing or contains 'unaffiliated' is a member of
\* the one organization "Unaffiliated", in both scripts.
C6_UnaffiliatedCollapses ==
  /\ HGrouped =>
       \A i \in 1..Len(doc.nodes) :
         (ClaimBlankOrg(doc.nodes[i]) \/ ClaimMentionsUnaffiliated(doc.nodes[i])) =>
           /\ S_Unaffiliated \in DOMAIN h_orgs
           /\ IsIn(h_orgs[S_Unaffiliated].people, doc.nodes[i])
  /\ OGrouped =>
       \A i \in 1..Len(doc.nodes) :
         (ClaimBlankOrg(doc.nodes[i]) \/ ClaimMentionsUnaffiliated(doc.nodes[i])) =>
           /\ S_Unaffiliated \in DOMAIN o_orgs
           /\ IsIn(ClaimIds(o_orgs[S_Unaffiliated].people), doc.nodes[i].id)
\* C6 (amended): after grouping, the organizations are exactly the normalized
\* names, where an empty, whitespace-only or missing organization is
\* "Unaffiliated" and any other one is its trimmed text, and the members of an
\* organization are the node records of that name, in input order.  A record
\* whose organization contains 'unaffiliated' is therefore in the group named
\* by its own trimmed text.
C6_GroupedByTrimmedName ==
  /\ HGrouped =>
       /\ DOMAIN h_orgs = ClaimOrgNames
       /\ \A name \in ClaimOrgNames : h_orgs[name].people = ClaimMembers(name)
  /\ OGrouped =>
       /\ DOMAIN o_orgs = ClaimOrgNames
       /\ \A name \in ClaimOrgNames :
            ClaimIds(o_orgs[name].people) = ClaimIds(ClaimMembers(name))
\* both scripts have grouped a list holding a record without organization text
\* and a record whose organization contains 'unaffiliated' and is not
\* "Unaffiliated": they are in two groups
C6_Witness ==
  /\ h_pc = "done" /\ o_pc = "done"
  /\ \E i \in 1..Len(doc.nodes), j \in 1..Len(doc.nodes) :
       /\ ClaimBlankOrg(doc.nodes[i])
       /\ ClaimMentionsUnaffiliated(doc.nodes[j])
       /\ ClaimOrgName(doc.nodes[j]) # S_Unaffiliated
       /\ IsIn(h_orgs[S_Unaffiliated].people, doc.nodes[i])
       /\ ~IsIn(h_orgs[S_Unaffiliated].people, doc.nodes[j])

ClaimRequiredKeysPresent ==
  /\ \A i \in 1..Len(doc.nodes) : {"id", "label", "attributes"} \subseteq DOMAIN doc.nodes[i]
  /\ \A k \in 1..Len(doc.edges) : {"source", "target"} \subseteq DOMAIN doc.edges[k]
ClaimMentionsUnusable(node) ==
  \/ "mentions" \notin DOMAIN node.attributes
  \/ ~ParseInt(node.attributes["mentions"]).ok
\* C7 (as claimed): on a document whose records hold all required keys, the
\* hybrid script never aborts, and a person whose mentions is missing or is
\* not an integer text gets size 3 (30 tenths).
C7_MentionsFallback ==
  ClaimRequiredKeysPresent =>
    /\ h_pc # "aborted"
    /\ h_pc = "done" =>
         \A i \in 1..Len(doc.nodes) :
           ClaimMentionsUnusable(doc.nodes[i]) =>
             h_file.content.nodes[Cardinality(ClaimOrgNames) + i].size_tenths = 30

ClaimMembershipCount(graph) ==
  Cardinality({e \in 1..Len(graph.edges) : graph.edges[e].attributes.edgeType = "membership"})
ClaimHybridBuilt ==
  /\ Len(h_graph.nodes) = Cardinality(ClaimOrgNames) + Len(doc.nodes)
  /\ ClaimMembershipCount(h_graph) = Len(doc.nodes)
  /\ h_i = Len(doc.edges) + 1
ClaimOrgBuilt ==
  /\ Len(o_graph.nodes) = Cardinality(ClaimOrgNames)
  /\ Len(o_graph.edges) =
       Cardinality({pair \in ClaimOrgNames \X ClaimOrgNames :
                      pair[1] # pair[2] /\ ClaimContributing(pair[1], pair[2]) # {}})
ClaimHybridWrite ==
  h_file' # h_file =>
    /\ ClaimHybridBuilt
    /\ h_file' = [written |-> TRUE, content |-> h_graph]
    /\ h_graph' = h_graph
ClaimOrgWrite ==
  o_file' # o_file =>
    /\ ClaimOrgBuilt
    /\ o_file' = [written |-> TRUE, content |-> o_graph]
    /\ o_graph' = o_graph
ClaimWrittenIsFinal ==
  /\ h_file.written => (h_file' = h_file /\ h_graph' = h_graph)
  /\ o_file.written => (o_file' = o_file /\ o_graph' = o_graph)
\* C8: a script writes its output file only in a step taken when every output
\* node and every output edge has been constructed, what it writes is that
\* graph, nothing is constructed or written afterwards, and a run that has
\* aborted has written nothing.
C8_WrittenOnlyWhenBuilt ==
  /\ [][ClaimHybridWrite /\ ClaimOrgWrite /\ ClaimWrittenIsFinal]_vars
  /\ [](h_pc = "aborted" => ~h_file.written)
  /\ [](o_pc = "aborted" => ~o_file.written)
\* the hybrid script has aborted with organization nodes built and nothing
\* written, and the org script has written its complete graph
C8_Witness ==
  /\ h_pc = "aborted" /\ Len(h_graph.nodes) > 0 /\ ~h_file.written
  /\ o_pc = "done" /\ o_file.written /\ Len(o_file.content.nodes) > 0

ClaimMembershipEdges(out) ==
  LET IsMembership(edge) == edge.attributes.edgeType = "membership"
  IN  SelectSeq(out.edges, IsMembership)
\* C9 (as claimed): when the hybrid script has finished, the i-th membership
\* edge belongs to the i-th node record: its source is the record's id and its
\* target is the organization node labelled with the record's own normalized
\* organization name; and the people_count of every organization node is the
\* number of membership edges that target it.
C9_MembershipToOwnOrg ==
  h_pc = "done" =>
    LET out == h_file.content
        member_of == ClaimMembershipEdges(out)
    IN  /\ Len(member_of) = Len(doc.nodes)
        /\ \A i \in 1..Len(doc.nodes) :
             /\ member_of[i].source = doc.nodes[i].id
             /\ member_of[i].target \in ClaimOrgNodeIds(out, ClaimOrgName(doc.nodes[i]))
        /\ \A n \in 1..Len(out.nodes) :
             out.nodes[n].type = "Organization" =>
               out.nodes[n].attributes.people_count =
                 Cardinality({e \in 1..Len(member_of) : member_of[e].target = out.nodes[n].id})

\* C10: once both scripts have built their organization nodes, the two sets
\* of organization nodes agree in label, id, category and people_count, and
\* they are the nodes of the normalized names.
C10_SameOrganizationNodes ==
  (HOrgNodesBuilt /\ OOrgNodesBuilt) =>
    /\ HOrgViews = OOrgViews
    /\ {v.label : v \in HOrgViews} = ClaimOrgNames
    /\ Cardinality(HOrgViews) = Cardinality(ClaimOrgNames)
\* both scripts have built two organization nodes of different categories,
\* one of them with two members
C10_Witness ==
  /\ HOrgNodesBuilt /\ OOrgNodesBuilt
  /\ \E v \in OOrgViews, w \in OOrgViews :
       v.category # w.category /\ v.people_count >= 2
  /\ \E v \in HOrgViews : v.category = "Education"
====
